---- MODULE Spec2Model ----
(***************************************************************************)
(* Trade aggregation and ranking of hohohooooo/stock_v2:                   *)
(* StockTradeAnalyzer (src/trade_analyzer.py) and the script that drives   *)
(* it (src/app.py).                                                        *)
(*                                                                         *)
(* Numbers.  Python floats are IEEE-754 binary64 values.  A float is held  *)
(* here as a pair <<m, e>> standing for m * 2^e, with m = 0 or             *)
(* 2^(FloatBits-1) <= |m| < 2^FloatBits, and every float operation rounds  *)
(* its exact result to the nearest such value, ties to even, as binary64   *)
(* does.  binary64 has a 53-bit significand; the significand is narrowed   *)
(* to FloatBits here because TLC's integers have 31 bits.  A value that a  *)
(* rounding to d decimals produced is held as the integer number of        *)
(* 10^-d units (prices "in cents", one-decimal columns "in tenths") and    *)
(* stands for the float nearest to it.                                     *)
(***************************************************************************)
EXTENDS Integers, Sequences, FiniteSets, TLC

\* ------------------------------------------------------------------ bounds
MaxRecs   == 3      \* records in a normalized record set
MaxRows   == 2      \* data rows in an uploaded report
MaxN      == 3      \* largest limit n passed to a top20_* method
FloatBits == 17     \* bits of the significand of a float

\* ------------------------------------------------------------------ floats
Abs(x) == IF x < 0 THEN -x ELSE x

Sign(x) == IF x < 0 THEN -1 ELSE 1

Min(a, b) == IF a <= b THEN a ELSE b

FZero == <<0, 0>>

\* Bring n/d into [1, 2) by powers of two: <<n', d', e'>> with
\* d' <= n' < 2d' and n'/d' * 2^e' = n/d * 2^e.
RECURSIVE Scale(_, _, _)
Scale(n, d, e) ==
    IF n < d THEN Scale(2 * n, d, e - 1)
    ELSE IF n >= 2 * d THEN Scale(n, 2 * d, e + 1)
    ELSE <<n, d, e>>

\* Long division: q holds k bits of the quotient, r < d is the remainder.
RECURSIVE Digits(_, _, _, _)
Digits(q, r, d, k) ==
    IF k = FloatBits THEN <<q, r>>
    ELSE IF 2 * r >= d THEN Digits(2 * q + 1, 2 * r - d, d, k + 1)
    ELSE Digits(2 * q, 2 * r, d, k + 1)

\* The float nearest to (num / den) * 2^e, ties to even (num > 0, den > 0).
RoundPos(num, den, e) ==
    LET s   == Scale(num, den, e)
        qr  == Digits(1, s[1] - s[2], s[2], 1)
        q   == qr[1]
        r   == qr[2]
        up  == (2 * r > s[2]) \/ (2 * r = s[2] /\ q % 2 = 1)
        q1  == IF up THEN q + 1 ELSE q
        e1  == s[3] - (FloatBits - 1)
    IN  IF q1 = 2 ^ FloatBits THEN <<2 ^ (FloatBits - 1), e1 + 1>> ELSE <<q1, e1>>

\* The float nearest to (num / den) * 2^e for any integer num, den > 0.
FRound(num, den, e) ==
    IF num = 0 THEN FZero
    ELSE LET p == RoundPos(Abs(num), den, e) IN <<Sign(num) * p[1], p[2]>>

\* float(i), and int / int (true division, correctly rounded).
FromInt(i) == FRound(i, 1, 0)

IntDiv(a, b) == FRound(a, b, 0)

\* The exponent of 2 in i >= 0.
RECURSIVE TwoAdic(_)
TwoAdic(i) == IF i = 0 \/ i % 2 = 1 THEN 0 ELSE 1 + TwoAdic(i \div 2)

\* float * int and float / int: the integer converts exactly.  The power of
\* two in i goes to the exponent.
FMulInt(f, i) == FRound(f[1] * (i \div (2 ^ TwoAdic(i))), 1, f[2] + TwoAdic(i))

FDivInt(f, i) == FRound(f[1], i, f[2])

FNeg(f) == <<-f[1], f[2]>>

\* float + float.  The operand of lower exponent is shifted right keeping
\* three guard bits and a sticky bit, which rounds as the exact sum does.
FAdd(f, g) ==
    IF f = FZero THEN g
    ELSE IF g = FZero THEN f
    ELSE LET hi == IF f[2] >= g[2] THEN f ELSE g
             lo == IF f[2] >= g[2] THEN g ELSE f
             d  == hi[2] - lo[2]
         IN  IF d > FloatBits + 2 THEN hi
             ELSE IF d <= 3 THEN FRound(hi[1] * (2 ^ d) + lo[1], 1, lo[2])
             ELSE LET sh == 2 ^ (d - 3)
                      t  == Abs(lo[1]) \div sh
                      st == IF Abs(lo[1]) % sh = 0 THEN 0 ELSE 1
                  IN  FRound(16 * hi[1] + Sign(lo[1]) * (2 * t + st), 1, hi[2] - 4)

\* Faulty variant: the operands the other way round.
FSubReversed(f, g) == FAdd(g, FNeg(f))

FSub(f, g) == FAdd(f, FNeg(g))

\* n / d rounded to the nearest integer, ties to even (n >= 0, d > 0).
RoundHalfEven(n, d) ==
    LET q == n \div d
        r == n % d
    IN  IF (2 * r > d) \/ (2 * r = d /\ q % 2 = 1) THEN q + 1 ELSE q

\* Python round(x, nd): the exact value of x rounded to nd decimals, ties to
\* even.  Yields the integer K with round(x, nd) = float(K / 10^nd).
PyRound(f, nd) ==
    LET n == Abs(f[1]) * (10 ^ nd)
    IN  IF f[2] >= 0 THEN f[1] * (10 ^ nd) * (2 ^ f[2])
        ELSE IF -f[2] > 28 THEN 0
        ELSE Sign(f[1]) * RoundHalfEven(n, 2 ^ (-f[2]))

\* The float a decimal stands for: K / 10^nd, e.g. the text "12.05".
Dec(K, nd) == FRound(K, 10 ^ nd, 0)

\* numpy round(x, 1) as DataFrame.round / Series.round apply it:
\* rint(x * 10) / 10.  Yields the integer K of tenths.
NpRound1(f) == PyRound(FMulInt(f, 10), 0)

\* Faulty variant: to the nearest integer instead of toward zero.
TruncRounded(f) == PyRound(f, 0)

\* int(x): truncation toward zero.
Trunc(f) ==
    IF f[2] >= 0 THEN f[1] * (2 ^ f[2])
    ELSE IF -f[2] > 28 THEN 0
    ELSE Sign(f[1]) * (Abs(f[1]) \div (2 ^ (-f[2])))

\* ------------------------------------------------------------------ frames
\* None, and a DataFrame: its column labels and its rows in index order.
None == [none |-> TRUE]

Frame(cols, rws) == [columns |-> cols, rows |-> rws]

\* Column labels.  The source's labels are (in the order of the record
\* fields used below):
\*   broker 券商, price 價格, buy 買進股數, sell 賣出股數          (record set)
\*   buy_lots 買入(張), buy_price 買入價, sell_lots 賣出(張),
\*   sell_price 賣出價, day_trade_lots 當沖量(張),
\*   total_buy_amount 總買進金額(萬), total_sell_amount 總賣出金額(萬),
\*   net_buy_lots 淨買入(張), net_sell_lots 淨賣出(張),
\*   net_buy_value 淨買額(萬), net_sell_value 淨賣額(萬),
\*   day_trade_pnl 當沖盈虧(萬), rank 名次                          (aggregate)
RecordColumns == {"broker", "price", "buy", "sell"}

AggColumns == {"broker", "buy_lots", "buy_price", "sell_lots", "sell_price",
               "day_trade_lots", "total_buy_amount", "total_sell_amount",
               "net_buy_lots", "net_sell_lots", "net_buy_value",
               "net_sell_value", "day_trade_pnl"}

\* format_broker_name: keeps CJK ideographs, CJK punctuation, full-width
\* forms and the characters "(", ")", "-"; drops everything else.
format_broker_name(name) ==
    SelectSeq(name, LAMBDA ch :
        \/ (ch >= 19968 /\ ch <= 40959)
        \/ (ch >= 12288 /\ ch <= 12351)
        \/ (ch >= 65280 /\ ch <= 65519)
        \/ ch \in {40, 41, 45})

\* --------------------------------------------------------------- aggregation
\* Faulty variant: only brokers that traded get a row.
UniqueBrokersTraded(recs) ==
    LET traded == SelectSeq(recs, LAMBDA r : r.buy > 0 \/ r.sell > 0)
        F[i \in 0..Len(traded)] ==
            IF i = 0 THEN <<>>
            ELSE IF \E j \in 1..(i - 1) : traded[j].broker = traded[i].broker
                 THEN F[i - 1]
                 ELSE Append(F[i - 1], traded[i].broker)
    IN  F[Len(traded)]

\* df["券商"].unique(): the brokers in order of first appearance.
UniqueBrokers(recs) ==
    LET F[i \in 0..Len(recs)] ==
            IF i = 0 THEN <<>>
            ELSE IF \E j \in 1..(i - 1) : recs[j].broker = recs[i].broker
                 THEN F[i - 1]
                 ELSE Append(F[i - 1], recs[i].broker)
    IN  F[Len(recs)]

\* Faulty variant: records are grouped by the cleaned name.
BrokerDataByFormattedName(recs, broker) ==
    SelectSeq(recs, LAMBDA r : format_broker_name(r.broker) = format_broker_name(broker))

\* df[df["券商"] == broker]: exact equality of the name.
BrokerData(recs, broker) == SelectSeq(recs, LAMBDA r : r.broker = broker)

BuyData(recs) == SelectSeq(recs, LAMBDA r : r.buy > 0)

SellData(recs) == SelectSeq(recs, LAMBDA r : r.sell > 0)

\* Series.sum() of an integer column.
SumBuy(recs) ==
    LET F[i \in 0..Len(recs)] == IF i = 0 THEN 0 ELSE F[i - 1] + recs[i].buy
    IN  F[Len(recs)]

SumSell(recs) ==
    LET F[i \in 0..Len(recs)] == IF i = 0 THEN 0 ELSE F[i - 1] + recs[i].sell
    IN  F[Len(recs)]

\* Faulty variant: the prices are added without their weights.
BuyAmountUnweighted(recs) ==
    LET F[i \in 0..Len(recs)] ==
            IF i = 0 THEN FZero
            ELSE FAdd(F[i - 1], recs[i].price)
    IN  F[Len(recs)]

\* (price * shares).sum(): the float products added in row order.
BuyAmount(recs) ==
    LET F[i \in 0..Len(recs)] ==
            IF i = 0 THEN FZero
            ELSE FAdd(F[i - 1], FMulInt(recs[i].price, recs[i].buy))
    IN  F[Len(recs)]

SellAmount(recs) ==
    LET F[i \in 0..Len(recs)] ==
            IF i = 0 THEN FZero
            ELSE FAdd(F[i - 1], FMulInt(recs[i].price, recs[i].sell))
    IN  F[Len(recs)]

\* Faulty variant: the larger side instead of the smaller.
DayTradeVolumeMax(total_buy_shares, total_sell_shares) ==
    IF total_buy_shares >= total_sell_shares THEN total_buy_shares ELSE total_sell_shares

\* day_trade_volume = min(total_buy_shares, total_sell_shares).
DayTradeVolume(total_buy_shares, total_sell_shares) ==
    Min(total_buy_shares, total_sell_shares)

\* Faulty variant: both amounts are computed whatever the sign of net_shares.
NetAmountsBothSides(net_shares, avg_buy_price, avg_sell_price) ==
    <<IF avg_buy_price # 0
      THEN FDivInt(FMulInt(Dec(avg_buy_price, 2), Abs(net_shares)), 10000)
      ELSE FZero,
      IF avg_sell_price # 0
      THEN FDivInt(FMulInt(Dec(avg_sell_price, 2), Abs(net_shares)), 10000)
      ELSE FZero>>

\* The "Net" branch: <<net_buy_amount, net_sell_amount>>.  A net buyer gets a
\* buy amount at the average buy price, anyone else a sell amount at the
\* average sell price; a zero average price gives 0.0.
NetAmounts(net_shares, avg_buy_price, avg_sell_price) ==
    IF net_shares > 0
    THEN <<IF avg_buy_price # 0
           THEN FDivInt(FMulInt(Dec(avg_buy_price, 2), net_shares), 10000)
           ELSE FZero,
           FZero>>
    ELSE <<FZero,
           IF avg_sell_price # 0
           THEN FDivInt(FMulInt(Dec(avg_sell_price, 2), Abs(net_shares)), 10000)
           ELSE FZero>>

\* The local variables of one iteration of df2calculate's loop.  The average
\* prices are in cents (round(.., 2)).
BrokerLocals(recs, broker) ==
    LET broker_data       == BrokerData(recs, broker)
        buy_data          == BuyData(broker_data)
        total_buy_shares  == IF buy_data # <<>> THEN SumBuy(buy_data) ELSE 0
        total_buy_amount  == IF total_buy_shares > 0 THEN BuyAmount(buy_data) ELSE FZero
        avg_buy_price     == IF total_buy_shares > 0
                             THEN PyRound(FDivInt(total_buy_amount, total_buy_shares), 2)
                             ELSE 0
        sell_data         == SellData(broker_data)
        total_sell_shares == IF sell_data # <<>> THEN SumSell(sell_data) ELSE 0
        total_sell_amount == IF total_sell_shares > 0 THEN SellAmount(sell_data) ELSE FZero
        avg_sell_price    == IF total_sell_shares > 0
                             THEN PyRound(FDivInt(total_sell_amount, total_sell_shares), 2)
                             ELSE 0
        day_trade_volume  == DayTradeVolume(total_buy_shares, total_sell_shares)
        profit_loss       == IF day_trade_volume # 0
                             THEN FMulInt(FSub(Dec(avg_sell_price, 2), Dec(avg_buy_price, 2)), 1000)
                             ELSE FZero
        net_shares        == total_buy_shares - total_sell_shares
        net_amounts       == NetAmounts(net_shares, avg_buy_price, avg_sell_price)
        net_buy_amount    == net_amounts[1]
        net_sell_amount   == net_amounts[2]
    IN  [broker            |-> broker,
         total_buy_shares  |-> total_buy_shares,
         total_buy_amount  |-> total_buy_amount,
         avg_buy_price     |-> avg_buy_price,
         total_sell_shares |-> total_sell_shares,
         total_sell_amount |-> total_sell_amount,
         avg_sell_price    |-> avg_sell_price,
         day_trade_volume  |-> day_trade_volume,
         profit_loss       |-> profit_loss,
         net_shares        |-> net_shares,
         net_buy_amount    |-> net_buy_amount,
         net_sell_amount   |-> net_sell_amount]

\* round(x, 1) of the results dict followed by result_df.round(1); tenths.
Round1Twice(f) == NpRound1(Dec(PyRound(f, 1), 1))

\* results[broker] after result_df.round(1).  One-decimal columns are in
\* tenths; the net-value columns are integers (int(round(.., 1))), which
\* DataFrame.round leaves alone.
ResultRow(v) ==
    [broker            |-> v.broker,
     buy_lots          |-> Round1Twice(IntDiv(v.total_buy_shares, 1000)),
     buy_price         |-> Round1Twice(Dec(v.avg_buy_price, 2)),
     sell_lots         |-> Round1Twice(IntDiv(v.total_sell_shares, 1000)),
     sell_price        |-> Round1Twice(Dec(v.avg_sell_price, 2)),
     day_trade_lots    |-> Round1Twice(IntDiv(v.day_trade_volume, 1000)),
     total_buy_amount  |-> Round1Twice(FDivInt(v.total_buy_amount, 10000)),
     total_sell_amount |-> Round1Twice(FDivInt(v.total_sell_amount, 10000)),
     net_buy_lots      |-> IF v.net_shares > 0
                           THEN Round1Twice(IntDiv(v.net_shares, 1000))
                           ELSE NpRound1(FromInt(0)),
     net_sell_lots     |-> IF v.net_shares < 0
                           THEN Round1Twice(IntDiv(Abs(v.net_shares), 1000))
                           ELSE NpRound1(FromInt(0)),
     net_buy_value     |-> Trunc(Dec(PyRound(v.net_buy_amount, 1), 1)),
     net_sell_value    |-> Trunc(Dec(PyRound(v.net_sell_amount, 1), 1)),
     day_trade_pnl     |-> NpRound1(FDivInt(FMulInt(v.profit_loss, v.day_trade_volume),
                                            10000000))]

\* df2calculate(df): one row per unique broker, in order of first
\* appearance.  DataFrame.from_dict of an empty dict has no columns.
df2calculate(recs) ==
    LET brokers == UniqueBrokers(recs)
    IN  IF brokers = <<>> THEN Frame({}, <<>>)
        ELSE Frame(AggColumns,
                   [i \in 1..Len(brokers) |-> ResultRow(BrokerLocals(recs, brokers[i]))])

\* The loop variables of every iteration of df2calculate's loop, in the
\* order of the iterations.
LoopLocals(recs) ==
    LET brokers == UniqueBrokers(recs)
    IN  [i \in 1..Len(brokers) |-> BrokerLocals(recs, brokers[i])]

\* The frame df2calculate returns, given what its loop computed:
\* DataFrame.from_dict(results, orient="index") and round(1).
ResultFrame(ls) ==
    IF ls = <<>> THEN Frame({}, <<>>)
    ELSE Frame(AggColumns, [i \in 1..Len(ls) |-> ResultRow(ls[i])])

\* ------------------------------------------------------------------ ranking
Perms(k) == {p \in [1..k -> 1..k] : \A i, j \in 1..k : i # j => p[i] # p[j]}

\* Faulty variant: ascending order.
SortValuesAsc(rws, col) ==
    {[i \in 1..Len(rws) |-> rws[p[i]]] : p \in
        {q \in Perms(Len(rws)) :
            \A i, j \in 1..Len(rws) : i < j => rws[q[i]][col] <= rws[q[j]][col]}}

\* df.sort_values(by=col, ascending=False): the orders of the rows the sort
\* can produce.  The default kind is quicksort, which is not stable: rows of
\* equal key come out in any order.
SortValuesDesc(rws, col) ==
    {[i \in 1..Len(rws) |-> rws[p[i]]] : p \in
        {q \in Perms(Len(rws)) :
            \A i, j \in 1..Len(rws) : i < j => rws[q[i]][col] >= rws[q[j]][col]}}

\* Faulty variant: one row too many.
HeadNPlusOne(rws, n) == SubSeq(rws, 1, Min(n + 1, Len(rws)))

\* .head(n) for n >= 0.
HeadN(rws, n) == SubSeq(rws, 1, Min(n, Len(rws)))

\* Series.round(1) of a one-decimal column held in tenths.
SeriesRound1(t) == NpRound1(Dec(t, 1))

\* The tail of a top20_* method: project the sorted, truncated rows onto the
\* view's columns, reset the index to 0.., add 1 to it (名次), round the
\* price columns.
RankedRows(rws, keycol, valcol, roundval) ==
    [i \in 1..Len(rws) |->
        [rank       |-> (i - 1) + 1,
         broker     |-> rws[i].broker,
         buy_lots   |-> rws[i].buy_lots,
         buy_price  |-> SeriesRound1(rws[i].buy_price),
         sell_lots  |-> rws[i].sell_lots,
         sell_price |-> SeriesRound1(rws[i].sell_price),
         key        |-> rws[i][keycol],
         value      |-> IF roundval THEN SeriesRound1(rws[i][valcol]) ELSE rws[i][valcol]]]

\* The frames a top20_* call can return; {} when sort_values raises KeyError
\* because the frame has no such column.  In a view, "key" is the sort
\* column (淨買入(張) / 淨賣出(張) / 當沖量(張)) and "value" the column next
\* to it (淨買額(萬) / 淨賣額(萬) / 當沖盈虧(萬)).
Top20(frame, n, keycol, valcol, roundval) ==
    IF keycol \notin frame.columns THEN {}
    ELSE {RankedRows(HeadN(s, n), keycol, valcol, roundval) :
             s \in SortValuesDesc(frame.rows, keycol)}

top20_buy(frame, n) == Top20(frame, n, "net_buy_lots", "net_buy_value", FALSE)

top20_sell(frame, n) == Top20(frame, n, "net_sell_lots", "net_sell_value", FALSE)

top20_intraday(frame, n) == Top20(frame, n, "day_trade_lots", "day_trade_pnl", TRUE)

\* ----------------------------------------------------- reading, normalizing
\* A CSV cell is text.  A cell whose text is a number carries the number (a
\* price in cents, a volume in shares); any other text (empty, "--", ...)
\* does not parse.
NumCell(v) == [num |-> TRUE, val |-> v]

BadCell == [num |-> FALSE, val |-> 0]

\* NaN: a pair no float operation yields.
NaN == <<0, 1>>

\* pd.to_numeric(.., errors="coerce") of a cell with nd decimals.
ToNumeric(cell, nd) == IF cell.num THEN Dec(cell.val, nd) ELSE NaN

\* .fillna(0).astype(int)
FillNaAsInt(f) == Trunc(IF f = NaN THEN FromInt(0) ELSE f)

\* Faulty variant: rows without volume are dropped as well.
DropNaAndNoVolume(rws) ==
    SelectSeq(rws, LAMBDA r : r.price # NaN /\ (r.buy # 0 \/ r.sell # 0))

\* DataFrame.dropna(): drops the rows holding a NaN.  Broker names are
\* strings and the volumes are filled, so only the price can be NaN.
DropNa(rws) == SelectSeq(rws, LAMBDA r : r.price # NaN)

\* The uploaded file as csv.reader splits it, and the raw frame's columns.
File(rws) == [rows |-> rws]

RawColumns == 0..10

\* csv2df: None for a file without rows and, through the except clause,
\* when rows[header_row] does not exist; else the rows from data_start_row
\* on, under the header.
HeaderRowIndex == 2

DataStartRow == 3

csv2df(file) ==
    IF file.rows = <<>> THEN None
    ELSE IF Len(file.rows) < HeaderRowIndex + 1 THEN None
    ELSE Frame(RawColumns, SubSeq(file.rows, DataStartRow + 1, Len(file.rows)))

\* df2clean: the left quadruples (columns 1-4) of all rows, then the right
\* quadruples (columns 7-10), coerced, rows with a NaN dropped.
Coerce(quad) ==
    [broker |-> quad.broker,
     price  |-> ToNumeric(quad.price, 2),
     buy    |-> FillNaAsInt(ToNumeric(quad.buy, 0)),
     sell   |-> FillNaAsInt(ToNumeric(quad.sell, 0))]

df2clean(frame) ==
    LET left_df     == [i \in 1..Len(frame.rows) |-> frame.rows[i].left]
        right_df    == [i \in 1..Len(frame.rows) |-> frame.rows[i].right]
        combined_df == left_df \o right_df
    IN  Frame(RecordColumns,
              DropNa([i \in 1..Len(combined_df) |-> Coerce(combined_df[i])]))

\* -------------------------------------------------------------- input sets
BrokerA  == <<49, 20977>>       \* "1凱"
BrokerA2 == <<50, 20977>>       \* "2凱": the same name but for a digit
BrokerB  == <<20803, 45>>       \* "元-"
BrokerC  == <<51, 23500>>       \* "3富"

Rec(b, cents, buy, sell) == [broker |-> b, price |-> Dec(cents, 2), buy |-> buy, sell |-> sell]

\* The records normalized record sets are drawn from.
RecordPool ==
    { Rec(BrokerA,  2638,    1,    0),
      Rec(BrokerA,  2032,    2,    0),
      Rec(BrokerA,  1360,    1,    0),
      Rec(BrokerA,  1200, 1000,  500),
      Rec(BrokerB,   900, 2000,    0),
      Rec(BrokerB,   950,    0, 2000),
      Rec(BrokerC,  1000,    0,    0),
      Rec(BrokerA2, 1250,    0, 1500) }

SeqsUpTo(S, k) == UNION {[1..m -> S] : m \in 0..k}

RecordSets == SeqsUpTo(RecordPool, MaxRecs)

\* The rows of a report: two title rows, the header row, the data rows.
TextRow == [kind |-> "text"]

HeaderRow == [kind |-> "header"]

Quad(b, price, buy, sell) == [broker |-> b, price |-> price, buy |-> buy, sell |-> sell]

QuadPool ==
    { Quad(BrokerA, NumCell(1200), NumCell(1000), NumCell(500)),
      Quad(BrokerB, NumCell(900),  NumCell(0),    NumCell(2000)),
      Quad(BrokerC, BadCell,       NumCell(1000), NumCell(0)),
      Quad(BrokerC, NumCell(1000), BadCell,       NumCell(0)),
      Quad(<<>>,    BadCell,       BadCell,       BadCell) }

DataRows == {[kind |-> "data", left |-> l, right |-> r] : l, r \in QuadPool}

\* Whole reports, and reports cut short after 0, 1 or 2 rows.
Files ==
    {File(SubSeq(<<TextRow, TextRow, HeaderRow>>, 1, k)) : k \in 0..2}
    \cup {File(<<TextRow, TextRow, HeaderRow>> \o d) : d \in SeqsUpTo(DataRows, MaxRows)}

\* ------------------------------------------------------------------- state
VARIABLES
    uploaded,   \* the rows csv.reader yields for the uploaded file, or None
    df2,        \* app.py: what csv2df returned
    df_raw,     \* the normalized record set (what df2clean returned)
    df,         \* the aggregate table (what df2calculate returned)
    locals,     \* df2calculate's loop variables, one record per broker
    out,        \* the ranked view the last top20_* call returned
    pc,         \* where the caller is
    err         \* the exception that ended the run, "" if none

vars == <<uploaded, df2, df_raw, df, locals, out, pc, err>>

NoView == [fn |-> "", n |-> 0, rows |-> <<>>]

\* ------------------------------------------- the analyzer on a record set
\* A caller holds a normalized record set, aggregates it and asks for one
\* ranked view with a limit of its choice.
Init ==
    /\ uploaded = None
    /\ df2 = None
    /\ df_raw \in {Frame(RecordColumns, s) : s \in RecordSets}
    /\ df = None
    /\ locals = <<>>
    /\ out = NoView
    /\ pc = "cleaned"
    /\ err = ""

Df2calculate ==
    /\ pc = "cleaned"
    /\ locals' = LoopLocals(df_raw.rows)
    /\ df' = ResultFrame(locals')
    /\ pc' = "calculated"
    /\ UNCHANGED <<uploaded, df2, df_raw, out, err>>

\* Faulty variant: the results of the earlier invocation are still in the
\* dict when the next one fills it.
Df2calculateAgainOnOldResults ==
    /\ pc = "calculated"
    /\ locals' = locals \o LoopLocals(df_raw.rows)
    /\ df' = ResultFrame(locals')
    /\ pc' = "recalculated"
    /\ UNCHANGED <<uploaded, df2, df_raw, out, err>>

\* A second invocation of df2calculate on the record set the caller holds.
\* "results = {}" starts every invocation afresh, the method keeps nothing
\* on self, and df is only read (boolean indexing and unique() build new
\* objects).
Df2calculateAgain ==
    /\ pc = "calculated"
    /\ locals' = LoopLocals(df_raw.rows)
    /\ df' = ResultFrame(locals')
    /\ pc' = "recalculated"
    /\ UNCHANGED <<uploaded, df2, df_raw, out, err>>

\* A top20_* call made at position from: returns a view, or raises.
Call(fn, n, results, from, to) ==
    /\ pc = from
    /\ IF results = {}
       THEN /\ err' = "KeyError"
            /\ pc' = "error"
            /\ out' = [fn |-> fn, n |-> n, rows |-> <<>>]
       ELSE /\ \E v \in results : out' = [fn |-> fn, n |-> n, rows |-> v]
            /\ pc' = to
            /\ err' = ""
    /\ UNCHANGED <<uploaded, df2, df_raw, df, locals>>

Top20Buy(n) == Call("top20_buy", n, top20_buy(df, n), "calculated", "ranked")

Top20Sell(n) == Call("top20_sell", n, top20_sell(df, n), "calculated", "ranked")

Top20Intraday(n) == Call("top20_intraday", n, top20_intraday(df, n), "calculated", "ranked")

Next ==
    \/ Df2calculate
    \/ Df2calculateAgain
    \/ \E n \in 0..MaxN : Top20Buy(n)
    \/ \E n \in 0..MaxN : Top20Sell(n)
    \/ \E n \in 0..MaxN : Top20Intraday(n)

Spec == Init /\ [][Next]_vars

\* ------------------------------------------------------ the app.py script
\* One run of the script per upload: csv2df, df2clean, df2calculate, the
\* filter and table section, then the three top-20 tables with the default
\* limit.  An exception ends the run.
DefaultN == 20

InitApp ==
    /\ uploaded = None
    /\ df2 = None
    /\ df_raw = None
    /\ df = None
    /\ locals = <<>>
    /\ out = NoView
    /\ pc = "idle"
    /\ err = ""

\* st.file_uploader returns the uploaded file.
Upload ==
    /\ pc = "idle"
    /\ \E f \in Files : uploaded' = f
    /\ pc' = "uploaded"
    /\ UNCHANGED <<df2, df_raw, df, locals, out, err>>

Csv2df ==
    /\ pc = "uploaded"
    /\ df2' = csv2df(uploaded)
    /\ pc' = "read"
    /\ UNCHANGED <<uploaded, df_raw, df, locals, out, err>>

\* df2clean(df2): df.iloc of None raises AttributeError.
Df2clean ==
    /\ pc = "read"
    /\ IF df2 = None
       THEN /\ err' = "AttributeError"
            /\ pc' = "error"
            /\ UNCHANGED df_raw
       ELSE /\ df_raw' = df2clean(df2)
            /\ pc' = "cleaned"
            /\ UNCHANGED err
    /\ UNCHANGED <<uploaded, df2, df, locals, out>>

\* "if df is not None:" and the filter section, which reads df['買入價'].
Display ==
    /\ pc = "calculated"
    /\ IF df = None
       THEN /\ pc' = "done"
            /\ UNCHANGED err
       ELSE IF "buy_price" \notin df.columns
       THEN /\ err' = "KeyError"
            /\ pc' = "error"
       ELSE /\ pc' = "displayed"
            /\ UNCHANGED err
    /\ UNCHANGED <<uploaded, df2, df_raw, df, locals, out>>

AppTop20Buy == Call("top20_buy", DefaultN, top20_buy(df, DefaultN), "displayed", "buy_shown")

AppTop20Sell == Call("top20_sell", DefaultN, top20_sell(df, DefaultN), "buy_shown", "sell_shown")

AppTop20Intraday ==
    Call("top20_intraday", DefaultN, top20_intraday(df, DefaultN), "sell_shown", "done")

NextApp ==
    \/ Upload
    \/ Csv2df
    \/ Df2clean
    \/ Df2calculate
    \/ Display
    \/ AppTop20Buy
    \/ AppTop20Sell
    \/ AppTop20Intraday

SpecApp == InitApp /\ [][NextApp]_vars

\* ============================================================== properties
\* What the properties read off the state.
Recs == df_raw.rows

BrokerSet == {Recs[i].broker : i \in 1..Len(Recs)}

\* The shares of broker b bought / sold over the whole record set.
TotalBuy(b) ==
    LET F[i \in 0..Len(Recs)] ==
            IF i = 0 THEN 0
            ELSE F[i - 1] + (IF Recs[i].broker = b THEN Recs[i].buy ELSE 0)
    IN  F[Len(Recs)]

TotalSell(b) ==
    LET F[i \in 0..Len(Recs)] ==
            IF i = 0 THEN 0
            ELSE F[i - 1] + (IF Recs[i].broker = b THEN Recs[i].sell ELSE 0)
    IN  F[Len(Recs)]

NetShares(b) == TotalBuy(b) - TotalSell(b)

\* Shares in lots (shares / 1000) at one decimal, in tenths.
Lots(shares) == Round1Twice(IntDiv(shares, 1000))

\* df2calculate has returned and its frame is held.
AggDone == pc \in {"calculated", "ranked"}

RowsOf(b) == {i \in 1..Len(df.rows) : df.rows[i].broker = b}

AggRow(b) == df.rows[CHOOSE i \in 1..Len(df.rows) : df.rows[i].broker = b]

\* All of b's records have no volume on either side.
ZeroVolume(b) ==
    \A i \in 1..Len(Recs) : Recs[i].broker = b => (Recs[i].buy = 0 /\ Recs[i].sell = 0)

AllZero(r) ==
    /\ r.buy_lots = 0 /\ r.buy_price = 0 /\ r.sell_lots = 0 /\ r.sell_price = 0
    /\ r.day_trade_lots = 0 /\ r.total_buy_amount = 0 /\ r.total_sell_amount = 0
    /\ r.net_buy_lots = 0 /\ r.net_sell_lots = 0
    /\ r.net_buy_value = 0 /\ r.net_sell_value = 0 /\ r.day_trade_pnl = 0

\* The aggregate column a view is sorted by.
KeyColumn(fn) ==
    CASE fn = "top20_buy"  -> "net_buy_lots"
      [] fn = "top20_sell" -> "net_sell_lots"
      [] OTHER             -> "day_trade_lots"

\* A view over the whole table: the limit does not cut it.
FullView == pc = "ranked" /\ out.n >= Len(df.rows)

InView(b) == \E i \in 1..Len(out.rows) : out.rows[i].broker = b

\* C1: when the record set is empty, a top20_* call returns an empty view
\* and raises nothing.
C1_EmptyAggregateEmptyView ==
    (pc \in {"ranked", "error"} /\ Recs = <<>>) =>
        (pc = "ranked" /\ err = "" /\ out.rows = <<>>)

\* C2 as stated: in every aggregate row, a non-zero net_shares means exactly
\* one of the net-buy value and the net-sell value is non-zero, and a zero
\* net_shares means both are zero.
C2_ExactlyOneNetValue ==
    AggDone =>
        \A i \in 1..Len(df.rows) :
            LET r == df.rows[i]
                net == NetShares(r.broker)
            IN  /\ net # 0 => ((r.net_buy_value # 0) # (r.net_sell_value # 0))
                /\ net = 0 => (r.net_buy_value = 0 /\ r.net_sell_value = 0)

\* C2 amended: in every aggregate row at most one of the net-buy value and
\* the net-sell value is non-zero, and only the one on the side of the net
\* position: a net buyer has net-sell value 0, a net seller net-buy value 0,
\* a flat broker both 0.
C2_NetValueOnNetSideOnly ==
    AggDone =>
        \A i \in 1..Len(df.rows) :
            LET r == df.rows[i]
                net == NetShares(r.broker)
            IN  /\ r.net_buy_value >= 0 /\ r.net_sell_value >= 0
                /\ net > 0 => r.net_sell_value = 0
                /\ net < 0 => r.net_buy_value = 0
                /\ net = 0 => (r.net_buy_value = 0 /\ r.net_sell_value = 0)

\* A net buyer who also sold, with a non-zero net-buy value.
C2_Witness ==
    /\ AggDone
    /\ \E i \in 1..Len(df.rows) :
          /\ NetShares(df.rows[i].broker) > 0
          /\ TotalSell(df.rows[i].broker) > 0
          /\ df.rows[i].net_buy_value > 0
          /\ df.rows[i].net_sell_value = 0

\* C4: in every aggregate row the buy and sell volumes are non-negative and
\* are the broker's total shares in lots, and the day-trade volume is the
\* smaller of the two totals, in lots at one decimal.
C4_DayTradeVolumeIsMin ==
    AggDone =>
        \A i \in 1..Len(df.rows) :
            LET r == df.rows[i]
                tb == TotalBuy(r.broker)
                ts == TotalSell(r.broker)
            IN  /\ tb >= 0 /\ ts >= 0
                /\ r.buy_lots >= 0 /\ r.sell_lots >= 0
                /\ r.buy_lots = Lots(tb) /\ r.sell_lots = Lots(ts)
                /\ r.day_trade_lots = Lots(IF tb <= ts THEN tb ELSE ts)

\* A broker with different, non-zero volumes on the two sides.
C4_Witness ==
    /\ AggDone
    /\ \E i \in 1..Len(df.rows) :
          /\ df.rows[i].day_trade_lots > 0
          /\ df.rows[i].buy_lots > df.rows[i].day_trade_lots

\* C6 as stated: a broker whose records all have zero volume has exactly one
\* aggregate row, all of whose numeric fields are 0, and in a view over the
\* whole table it is the last row.
C6_ZeroVolumeBrokerLast ==
    AggDone =>
        \A b \in BrokerSet : ZeroVolume(b) =>
            /\ Cardinality(RowsOf(b)) = 1
            /\ \A i \in RowsOf(b) : AllZero(df.rows[i])
            /\ FullView => (err = "" /\ out.rows[Len(out.rows)].broker = b)

\* C6 amended: such a broker has exactly one aggregate row, all of whose
\* numeric fields are 0, and in a view over the whole table it is last up to
\* ties: its key is 0 and every row ranked after it has key 0 as well.
C6_ZeroVolumeBrokerLastUpToTies ==
    AggDone =>
        \A b \in BrokerSet : ZeroVolume(b) =>
            /\ Cardinality(RowsOf(b)) = 1
            /\ \A i \in RowsOf(b) : AllZero(df.rows[i])
            /\ FullView =>
                  /\ err = ""
                  /\ \E i \in 1..Len(out.rows) :
                        /\ out.rows[i].broker = b
                        /\ out.rows[i].key = 0
                        /\ \A j \in 1..Len(out.rows) : j > i => out.rows[j].key = 0

\* A zero-volume broker at the end of a whole-table view that starts with a
\* broker of positive key.
C6_Witness ==
    /\ FullView
    /\ Len(out.rows) >= 2
    /\ out.rows[1].key > 0
    /\ ZeroVolume(out.rows[Len(out.rows)].broker)

\* C7: a view returned for limit n over a table of B brokers has min(n, B)
\* rows.
C7_ViewSize ==
    pc = "ranked" =>
        Len(out.rows) = (IF out.n <= Cardinality(BrokerSet) THEN out.n
                         ELSE Cardinality(BrokerSet))

\* A view cut by its limit.
C7_Witness ==
    /\ pc = "ranked"
    /\ out.n >= 1
    /\ out.n < Cardinality(BrokerSet)
    /\ Len(out.rows) = out.n

\* C8: a view's rows are distinct aggregate rows carrying the view's key
\* column, in non-increasing order of the key, ranked 1..k, and no broker
\* left out has a key above that of a broker in the view.
C8_RankedTopN ==
    pc = "ranked" =>
        LET v == out.rows
            col == KeyColumn(out.fn)
        IN  /\ \A i \in 1..Len(v) :
                  /\ v[i].rank = i
                  /\ v[i].broker \in BrokerSet
                  /\ v[i].key = AggRow(v[i].broker)[col]
            /\ \A i, j \in 1..Len(v) : i < j =>
                  (v[i].key >= v[j].key /\ v[i].broker # v[j].broker)
            /\ \A k \in 1..Len(df.rows) : ~InView(df.rows[k].broker) =>
                  \A i \in 1..Len(v) : df.rows[k][col] <= v[i].key

\* A cut view of two rows with different keys that leaves out a broker of
\* smaller key.
C8_Witness ==
    /\ pc = "ranked"
    /\ Len(out.rows) = 2
    /\ out.rows[1].key > out.rows[2].key
    /\ \E k \in 1..Len(df.rows) :
          /\ ~InView(df.rows[k].broker)
          /\ df.rows[k][KeyColumn(out.fn)] < out.rows[2].key

\* C9: the aggregate table has exactly one row per distinct broker string of
\* the record set, names compared exactly, and a broker's row sums that
\* broker's records and no others.
C9_OneRowPerBrokerString ==
    AggDone =>
        /\ Len(df.rows) = Cardinality(BrokerSet)
        /\ \A b \in BrokerSet : Cardinality(RowsOf(b)) = 1
        /\ \A i \in 1..Len(df.rows) :
              /\ df.rows[i].broker \in BrokerSet
              /\ df.rows[i].buy_lots = Lots(TotalBuy(df.rows[i].broker))
              /\ df.rows[i].sell_lots = Lots(TotalSell(df.rows[i].broker))

\* Two brokers whose names differ only in characters format_broker_name
\* drops, each with volume, in separate rows.
C9_Witness ==
    /\ AggDone
    /\ \E a, b \in BrokerSet :
          /\ a # b
          /\ format_broker_name(a) = format_broker_name(b)
          /\ AggRow(a).buy_lots > 0
          /\ AggRow(b).sell_lots > 0

\* C10: for every permutation of the record set, df2calculate computes the
\* same avg_buy_price and avg_sell_price for every broker (and so reports
\* the same price columns).
Permuted(p) == [i \in 1..Len(Recs) |-> Recs[p[i]]]

C10_AvgPriceOrderInvariant ==
    pc = "calculated" =>
        \A p \in Perms(Len(Recs)) : \A b \in BrokerSet :
            LET here  == BrokerLocals(Recs, b)
                there == BrokerLocals(Permuted(p), b)
            IN  /\ there.avg_buy_price = here.avg_buy_price
                /\ there.avg_sell_price = here.avg_sell_price
                /\ ResultRow(there).buy_price = AggRow(b).buy_price
                /\ ResultRow(there).sell_price = AggRow(b).sell_price

\* ---------------------------------------------- properties of the script
\* The quadruples of the uploaded report's data rows: left ones, then right.
RawQuads ==
    LET d == SubSeq(uploaded.rows, DataStartRow + 1, Len(uploaded.rows))
    IN  [i \in 1..Len(d) |-> d[i].left] \o [i \in 1..Len(d) |-> d[i].right]

\* The record a quadruple with a parsable price stands for: volumes that do
\* not parse count as 0.
RecordOf(q) ==
    [broker |-> q.broker,
     price  |-> Dec(q.price.val, 2),
     buy    |-> IF q.buy.num THEN q.buy.val ELSE 0,
     sell   |-> IF q.sell.num THEN q.sell.val ELSE 0]

RECURSIVE KeptRecords(_)
KeptRecords(quads) ==
    IF quads = <<>> THEN <<>>
    ELSE IF Head(quads).price.num
         THEN <<RecordOf(Head(quads))>> \o KeptRecords(Tail(quads))
         ELSE KeptRecords(Tail(quads))

\* The file has no data row after the header row, or no header row.
TooFewRows == Len(uploaded.rows) <= DataStartRow

\* C3: when the uploaded table has too few rows for a header row and a data
\* region, csv2df returns None or an empty frame and the script run ends
\* without an exception.
C3_ShortFileIsNotFatal ==
    (pc # "idle" /\ TooFewRows) =>
        /\ pc # "uploaded" => (df2 = None \/ df2.rows = <<>>)
        /\ err = ""

\* C5: df2clean keeps exactly the quadruples whose price parses, in order,
\* whatever their volumes, with volumes that do not parse set to 0.
C5_KeepsIffPriceParses ==
    df_raw # None => df_raw.rows = KeptRecords(RawQuads)

\* A report from which one quadruple is dropped for its price and one with
\* an unparsable volume and no volume on either side is kept.
C5_Witness ==
    /\ pc = "cleaned"
    /\ \E i \in 1..Len(RawQuads) : ~RawQuads[i].price.num /\ RawQuads[i].buy.num
    /\ \E i \in 1..Len(RawQuads) : RawQuads[i].price.num /\ ~RawQuads[i].buy.num
    /\ \E i \in 1..Len(df_raw.rows) : df_raw.rows[i].buy = 0 /\ df_raw.rows[i].sell = 0
    /\ Len(df_raw.rows) < Len(RawQuads)

BuyCents(b) ==
    LET F[i \in 0..Len(Recs)] ==
            IF i = 0 THEN 0
            ELSE F[i - 1] + (IF Recs[i].broker = b /\ Recs[i].buy > 0
                             THEN PyRound(Recs[i].price, 2) * Recs[i].buy ELSE 0)
    IN  F[Len(Recs)]

SellCents(b) ==
    LET F[i \in 0..Len(Recs)] ==
            IF i = 0 THEN 0
            ELSE F[i - 1] + (IF Recs[i].broker = b /\ Recs[i].sell > 0
                             THEN PyRound(Recs[i].price, 2) * Recs[i].sell ELSE 0)
    IN  F[Len(Recs)]

\* avg (in cents) is sum / total exactly.
IsMean(avg, sum, total) == avg * total = sum

\* avg (in cents) is sum / total rounded to a whole cent: no more than half
\* a cent away from it.
IsMeanToTheCent(avg, sum, total) == 2 * Abs(avg * total - sum) <= total

\* The loop of df2calculate has run and its variables are held.
LoopDone == pc \in {"calculated", "recalculated", "ranked"}

\* C12 as stated: for every broker avg_buy_price is exactly
\* sum(price x buy_shares) / total_buy_shares over the broker's records with
\* buy_shares > 0 when there is buy volume and 0 when there is none, and the
\* same for avg_sell_price with sell_shares.
C12_AvgPriceIsExactMean ==
    LoopDone =>
        \A i \in 1..Len(locals) :
            LET v == locals[i]
                b == v.broker
            IN  /\ v.total_buy_shares = TotalBuy(b)
                /\ v.total_sell_shares = TotalSell(b)
                /\ IF TotalBuy(b) > 0
                   THEN IsMean(v.avg_buy_price, BuyCents(b), TotalBuy(b))
                   ELSE v.avg_buy_price = 0
                /\ IF TotalSell(b) > 0
                   THEN IsMean(v.avg_sell_price, SellCents(b), TotalSell(b))
                   ELSE v.avg_sell_price = 0

\* C12 amended: for every broker avg_buy_price is
\* sum(price x buy_shares) / total_buy_shares, over the broker's records with
\* buy_shares > 0, rounded to two decimals (at most half a cent away from the
\* exact mean) when there is buy volume, and 0 when there is none; the same
\* for avg_sell_price with sell_shares.  A record with both volumes positive
\* is in both sums.
C12_AvgPriceIsMeanToTheCent ==
    LoopDone =>
        \A i \in 1..Len(locals) :
            LET v == locals[i]
                b == v.broker
            IN  /\ v.total_buy_shares = TotalBuy(b)
                /\ v.total_sell_shares = TotalSell(b)
                /\ IF TotalBuy(b) > 0
                   THEN IsMeanToTheCent(v.avg_buy_price, BuyCents(b), TotalBuy(b))
                   ELSE v.avg_buy_price = 0
                /\ IF TotalSell(b) > 0
                   THEN IsMeanToTheCent(v.avg_sell_price, SellCents(b), TotalSell(b))
                   ELSE v.avg_sell_price = 0

\* One broker has a record with both volumes positive, an average buy price
\* that is not a whole number of cents before rounding and a different
\* average sell price; another broker sold only and has average buy price 0.
C12_Witness ==
    /\ LoopDone
    /\ \E i \in 1..Len(locals) :
          LET v == locals[i]
          IN  /\ \E k \in 1..Len(Recs) :
                    Recs[k].broker = v.broker /\ Recs[k].buy > 0 /\ Recs[k].sell > 0
              /\ ~IsMean(v.avg_buy_price, BuyCents(v.broker), v.total_buy_shares)
              /\ v.avg_buy_price > 0 /\ v.avg_sell_price > 0
              /\ v.avg_buy_price # v.avg_sell_price
    /\ \E i \in 1..Len(locals) :
          /\ locals[i].total_buy_shares = 0 /\ locals[i].total_sell_shares > 0
          /\ locals[i].avg_buy_price = 0 /\ locals[i].avg_sell_price > 0

\* K is num / den rounded to a whole number: no more than a half away.
IsNearest(K, num, den) == 2 * Abs(K * den - num) <= den

IsNetValue(R, shares, price) ==
    \E T \in {(shares * price) \div 100000, (shares * price) \div 100000 + 1} :
        /\ IsNearest(T, shares * price, 100000)
        /\ R = T \div 10

\* C14: for every broker, with net_shares = total_buy_shares -
\* total_sell_shares: a net buyer's net-buy value is net_shares x
\* avg_buy_price / 10000 and its net-sell value is 0; a net seller's net-sell
\* value is |net_shares| x avg_sell_price / 10000 and its net-buy value is 0;
\* a flat broker has both 0.  The reported fields are the value rounded to
\* one decimal and then truncated to an integer.
C14_NetValueAtSameSidePrice ==
    LoopDone =>
        /\ Len(df.rows) = Len(locals)
        /\ \A i \in 1..Len(locals) :
              LET v   == locals[i]
                  r   == df.rows[i]
                  net == NetShares(v.broker)
              IN  /\ r.broker = v.broker
                  /\ v.net_shares = net
                  /\ net > 0 => /\ IsNetValue(r.net_buy_value, net, v.avg_buy_price)
                                /\ r.net_sell_value = 0
                                /\ v.net_sell_amount = FZero
                  /\ net < 0 => /\ IsNetValue(r.net_sell_value, -net, v.avg_sell_price)
                                /\ r.net_buy_value = 0
                                /\ v.net_buy_amount = FZero
                  /\ net = 0 => /\ r.net_buy_value = 0 /\ r.net_sell_value = 0
                                /\ v.net_buy_amount = FZero /\ v.net_sell_amount = FZero

\* A net buyer whose value has a fraction that the truncation drops, a net
\* seller with a non-zero net-sell value, and a flat broker, in one table.
C14_Witness ==
    /\ LoopDone
    /\ \E i \in 1..Len(locals) :
          /\ locals[i].net_shares > 0
          /\ df.rows[i].net_buy_value > 0
          /\ PyRound(locals[i].net_buy_amount, 1) > 10 * df.rows[i].net_buy_value
    /\ \E i \in 1..Len(locals) :
          /\ locals[i].net_shares < 0
          /\ df.rows[i].net_sell_value > 0
    /\ \E i \in 1..Len(locals) : locals[i].net_shares = 0

====
